---- MODULE Spec2Model ----
(***************************************************************************)
(* Model of resources/functions/metering-service.py: the Lambda that       *)
(* relays metering operations to the Amberflo HTTP API.                    *)
(*                                                                         *)
(* A behaviour is one invocation: the module keeps nothing from one        *)
(* invocation to the next (API_KEY and app are set once at import and only *)
(* read).  A handler validates and shapes a payload, calls make_api_call,  *)
(* and wraps the result.  make_api_call is modelled one pass of its loop   *)
(* per step; the upstream's answer to each pass is an input.               *)
(*                                                                         *)
(* Python values:                                                          *)
(*   dict          a function whose domain is the set of keys              *)
(*   None          the string None (below), which is no caller value       *)
(*   text          a sequence of tokens (the lexemes of a JSON document)   *)
(*   bytes         [gz, utf8, text]: gz says the bytes are a gzip stream,  *)
(*                 utf8 that the (inner) bytes are valid UTF-8 of text     *)
(*   decoded body  [type, val] with type in dict / list / none / str      *)
(*   raise / return of a call:  [kind, exc, value]                         *)
(* json.dumps is injective on the payloads built here, so a request keeps  *)
(* the payload itself as its body (NoBody when no body is sent).           *)
(***************************************************************************)
EXTENDS Integers, Sequences, FiniteSets, TLC

\* ----- bounds of the model ------------------------------------------------
NumVals == 2

Vals == {"v" \o ToString(i) : i \in 1..NumVals}
MeterIds == {"m1", "m2"}

\* ----- Python helpers -----------------------------------------------------
None == "None"

EmptyDict == [k \in {} |-> None]

Put(d, k, v) == [x \in (DOMAIN d) \cup {k} |-> IF x = k THEN v ELSE d[x]]

Get(d, k, default) == IF k \in DOMAIN d THEN d[k] ELSE default

SetDefault(d, k, v) == IF k \in DOMAIN d THEN d ELSE Put(d, k, v)

Without(d, ks) == [x \in (DOMAIN d) \ ks |-> d[x]]

Dicts(K) == UNION {[D -> Vals] : D \in SUBSET K}

Last(s) == s[Len(s)]

\* ----- program constants --------------------------------------------------
\* Mutant: one attempt too many.
max_retries_more == 3 + 1

max_retries == 3

SecondsPerDay == 24 * 60 * 60

HTTP_CREATED == 201

HTTP_OK == 200

\* ----- results of calls ---------------------------------------------------
NoValue == [type |-> "none", val |-> None]

Return(v) == [kind |-> "return", exc |-> "-", value |-> v]

Raise(e, v) == [kind |-> "raise", exc |-> e, value |-> v]

NoResult == [kind |-> "-", exc |-> "-", value |-> NoValue]

\* ----- json.loads ---------------------------------------------------------
Punct == {"{", "}", "[", "]", ":", ","}

JsonScalar(tok) == IF tok = "null" THEN None ELSE tok

\* The members k : v of a flat object text { k : v , k : v }.
MemberCount(t) == (Len(t) + 1) \div 4

IsObjectText(t) ==
    /\ Len(t) >= 2
    /\ t[1] = "{"
    /\ t[Len(t)] = "}"
    /\ \/ Len(t) = 2
       \/ /\ Len(t) = 4 * MemberCount(t) + 1
          /\ \A i \in 1..MemberCount(t) :
                /\ t[4 * i - 2] \notin Punct \cup {"null"}
                /\ t[4 * i - 1] = ":"
                /\ t[4 * i] \notin Punct
                /\ i < MemberCount(t) => t[4 * i + 1] = ","

ObjectOf(t) ==
    IF Len(t) = 2 THEN EmptyDict
    ELSE LET n == MemberCount(t)
             keys == {t[4 * i - 2] : i \in 1..n}
             last(k) == CHOOSE i \in 1..n :
                           /\ t[4 * i - 2] = k
                           /\ \A j \in 1..n : t[4 * j - 2] = k => j <= i
         IN [k \in keys |-> JsonScalar(t[4 * last(k)])]

json_loads(t) ==
    IF IsObjectText(t) THEN [ok |-> TRUE, value |-> [type |-> "dict", val |-> ObjectOf(t)]]
    ELSE IF t = <<"[", "]">> THEN [ok |-> TRUE, value |-> [type |-> "list", val |-> <<>>]]
    ELSE IF t = <<"null">> THEN [ok |-> TRUE, value |-> NoValue]
    ELSE [ok |-> FALSE, value |-> NoValue]

\* ----- decode_response_body ----------------------------------------------
EmptyBytes == [gz |-> FALSE, utf8 |-> TRUE, text |-> <<>>]

\* gzip.GzipFile(...).read(): an empty stream reads as empty, a gzip stream
\* as its content, anything else raises BadGzipFile.
gunzip(b) ==
    IF b = EmptyBytes THEN [ok |-> TRUE, bytes |-> EmptyBytes]
    ELSE IF b.gz THEN [ok |-> TRUE, bytes |-> [b EXCEPT !.gz = FALSE]]
    ELSE [ok |-> FALSE, bytes |-> b]

\* bytes.decode('utf-8'): a gzip stream starts 0x1f 0x8b, which is no UTF-8.
utf8_decode(b) ==
    IF ~b.gz /\ b.utf8 THEN [ok |-> TRUE, text |-> b.text]
    ELSE [ok |-> FALSE, text |-> <<>>]

\* Mutant: the empty body is handed to json.loads like any other.
parse_body_no_empty_check(text) ==
    IF json_loads(text).ok THEN json_loads(text).value
    ELSE [type |-> "str", val |-> text]

parse_body(text) ==
    IF text = <<>> THEN [type |-> "dict", val |-> EmptyDict]
    ELSE IF json_loads(text).ok THEN json_loads(text).value
    ELSE [type |-> "str", val |-> text]

decode_response_body(response) ==
    IF response.encoding = "gzip"
    THEN IF ~gunzip(response.body).ok THEN Raise("BadGzipFile", NoValue)
         ELSE IF ~utf8_decode(gunzip(response.body).bytes).ok
              THEN Raise("UnicodeDecodeError", NoValue)
              ELSE Return(parse_body(utf8_decode(gunzip(response.body).bytes).text))
    ELSE IF ~utf8_decode(response.body).ok THEN Raise("UnicodeDecodeError", NoValue)
         ELSE Return(parse_body(utf8_decode(response.body).text))

\* ----- the upstream's answers (inputs) -------------------------------------
Plain(t) == [gz |-> FALSE, utf8 |-> TRUE, text |-> t]

Gzipped(t) == [gz |-> TRUE, utf8 |-> TRUE, text |-> t]

JunkBytes == [gz |-> FALSE, utf8 |-> FALSE, text |-> <<>>]

GzippedJunk == [gz |-> TRUE, utf8 |-> FALSE, text |-> <<>>]

TextMeter(v) == <<"{", "meterApiName", ":", v, "}">>

TextNoName == <<"{", "label", ":", "v1", "}">>

TextNullName == <<"{", "meterApiName", ":", "null", "}">>

TextList == <<"[", "]">>

TextHtml == <<"Bad", "Gateway">>

TextTruncated == <<"{", "label">>

Response(status, encoding, body) ==
    [status |-> status, encoding |-> encoding, body |-> body]

\* What the upstream may answer to a handler's call: every class of status,
\* with bodies that are an object with and without meterApiName, no JSON,
\* and no UTF-8.
Responses ==
    {Response(200, "identity", Plain(TextMeter(v))) : v \in Vals}
        \cup {Response(200, "gzip", Gzipped(TextNoName)),
              Response(200, "identity", Plain(TextNullName)),
              Response(200, "identity", Plain(TextList)),
              Response(200, "identity", Plain(TextHtml)),
              Response(200, "identity", JunkBytes),
              Response(404, "identity", Plain(TextNoName)),
              Response(500, "identity", Plain(TextHtml)),
              Response(503, "gzip", Plain(TextHtml))}

\* What the upstream may answer when make_api_call is exercised on its own.
ApiStatuses == {200, 399, 400, 499, 500, 503}

ApiTexts == {TextMeter(v) : v \in Vals} \cup {<<>>, TextHtml}

ApiBodies ==
    {Plain(t) : t \in ApiTexts}
        \cup {Gzipped(t) : t \in {TextMeter("v1"), TextTruncated}}
        \cup {JunkBytes, GzippedJunk}

ApiResponses == [status : ApiStatuses, encoding : {"identity", "gzip"}, body : ApiBodies]

\* time.time() in milliseconds
Times == {90000500}

\* ----- state --------------------------------------------------------------
VARIABLES
    pc,         \* "idle", "call" (in make_api_call's loop), "ret", "done"
    op,         \* the operation the invocation was routed to
    stack,      \* the handlers on the Python call stack, outermost first
    meter_id,   \* the <meter_id> of the request path
    event,      \* json_body / query_string_parameters / event['detail']
    now,        \* the clock of this invocation
    payload,    \* the handler's local payload
    call,       \* make_api_call's method, path and payload_str
    attempt,    \* make_api_call's attempt
    requests,   \* the conn.request calls of this invocation, in order
    responses,  \* the conn.getresponse results of this invocation, in order
    ret,        \* what the last completed call returned or raised
    outcome     \* what the invocation returned or raised

vars == <<pc, op, stack, meter_id, event, now, payload, call, attempt, requests,
          responses, ret, outcome>>

NoBody == [some |-> FALSE, val |-> EmptyDict]

Body(d) == [some |-> TRUE, val |-> d]

NoCall == [method |-> "-", path |-> <<>>, body |-> NoBody]

Frame(fn, line) == [fn |-> fn, line |-> line]

Top == Last(stack)

Init ==
    /\ pc = "idle"
    /\ op = "-"
    /\ stack = <<>>
    /\ meter_id = None
    /\ event = EmptyDict
    /\ now = 0
    /\ payload = EmptyDict
    /\ call = NoCall
    /\ attempt = 0
    /\ requests = <<>>
    /\ responses = <<>>
    /\ ret = NoResult
    /\ outcome = NoResult

\* ----- make_api_call ------------------------------------------------------
\* payload_str = json.dumps(payload) if payload else None
payload_str(p) == IF p.some /\ DOMAIN p.val # {} THEN Body(p.val) ELSE NoBody

\* Mutant: 400 itself is not taken for a client error.
IsClientError_narrow(status) == status > 400 /\ status < 500

IsClientError(status) == status >= 400 /\ status < 500

\* Mutant: redirects are taken for server errors.
IsServerError_wide(status) == status >= 300

IsServerError(status) == status >= 500

\* Mutant: the retry test is made before the increment is counted.
Iteration_gives_up_early(att, response) ==
    LET decoded == decode_response_body(response)
        error == Raise("RuntimeError",
                       [status |-> response.status, body |-> decoded.value])
    IN  IF decoded.kind = "raise"
        THEN [next |-> "ret", attempt |-> att, ret |-> decoded]
        ELSE IF IsClientError(response.status)
        THEN [next |-> "ret", attempt |-> att,
              ret |-> Raise("BadRequestError", decoded.value)]
        ELSE IF IsServerError(response.status)
        THEN IF att + 1 < max_retries
             THEN [next |-> "loop", attempt |-> att + 1, ret |-> NoResult]
             ELSE [next |-> "ret", attempt |-> att + 1, ret |-> error]
        ELSE [next |-> "ret", attempt |-> att, ret |-> Return(decoded.value)]

\* One pass of the while loop's body, on attempt att, the upstream answering
\* response: "loop" goes round again, "ret" leaves make_api_call with ret.
Iteration(att, response) ==
    LET decoded == decode_response_body(response)
        error == Raise("RuntimeError",
                       [status |-> response.status, body |-> decoded.value])
    IN  IF decoded.kind = "raise"
        THEN [next |-> "ret", attempt |-> att, ret |-> decoded]
        ELSE IF IsClientError(response.status)
        THEN [next |-> "ret", attempt |-> att,
              ret |-> Raise("BadRequestError", decoded.value)]
        ELSE IF IsServerError(response.status)
        THEN IF att + 1 <= max_retries
             THEN [next |-> "loop", attempt |-> att + 1, ret |-> NoResult]
             ELSE [next |-> "ret", attempt |-> att + 1, ret |-> error]
        ELSE [next |-> "ret", attempt |-> att, ret |-> Return(decoded.value)]

\* Lines 156-174: make_api_call up to the loop.
Enter(method, path, p) ==
    /\ call' = [method |-> method, path |-> path, body |-> payload_str(p)]
    /\ attempt' = 1
    /\ pc' = "call"

\* Lines 175-205: the loop, one pass per step.
make_api_call(R) ==
    /\ pc = "call"
    /\ IF attempt <= max_retries
       THEN \E response \in R :
               LET it == Iteration(attempt, response)
               IN  /\ requests' = Append(requests, call)
                   /\ responses' = Append(responses, response)
                   /\ attempt' = it.attempt
                   /\ ret' = it.ret
                   /\ pc' = IF it.next = "loop" THEN "call" ELSE "ret"
       ELSE /\ ret' = Return(NoValue)
            /\ pc' = "ret"
            /\ UNCHANGED <<requests, responses, attempt>>
    /\ UNCHANGED <<op, stack, meter_id, event, now, payload, call, outcome>>

\* An exception no handler catches leaves the invocation.
Unwind ==
    /\ pc = "ret"
    /\ stack # <<>>
    /\ ret.kind = "raise"
    /\ outcome' = ret
    /\ stack' = <<>>
    /\ pc' = "done"
    /\ UNCHANGED <<op, meter_id, event, now, payload, call, attempt, requests,
                   responses, ret>>

\* ----- the handlers -------------------------------------------------------
\* The router hands an invocation to a handler: fresh locals, empty logs.
Dispatch(fn, mid, ev, t) ==
    /\ pc = "idle"
    /\ op' = fn
    /\ meter_id' = mid
    /\ event' = ev
    /\ now' = t
    /\ requests' = <<>>
    /\ responses' = <<>>
    /\ ret' = NoResult

\* The handler raises before any call.
Reject(exc, msg) ==
    /\ outcome' = Raise(exc, [type |-> "str", val |-> <<msg>>])
    /\ pc' = "done"
    /\ stack' = <<>>
    /\ UNCHANGED <<call, attempt>>

\* return {'data': x}, status  -- to the router, or to the calling handler.
Respond(x, status) ==
    LET result == Return([body |-> [data |-> x], status |-> status])
    IN  /\ stack' = SubSeq(stack, 1, Len(stack) - 1)
        /\ IF Len(stack) = 1
           THEN /\ outcome' = result
                /\ pc' = "done"
                /\ ret' = ret
           ELSE /\ ret' = result
                /\ pc' = "ret"
                /\ outcome' = outcome
        /\ UNCHANGED <<op, meter_id, event, now, payload, call, attempt, requests,
                       responses>>

Returned(fn, line) ==
    /\ pc = "ret"
    /\ stack # <<>>
    /\ Top = Frame(fn, line)
    /\ ret.kind = "return"

\* Mutant: meterType is not asked for.
MeterRequired_short == {"label", "meterApiName"}

MeterRequired == {"label", "meterApiName", "meterType"}

CancelRequired == {"meterApiName", "id", "ingestionTimeRange"}

HasAll(d, required) == \A k \in required : k \in DOMAIN d

MeterPath(mid) == <<"/meters", mid>>

MeterKeys == {"label", "meterApiName", "meterType", "id"}

CancelKeys == {"meterApiName", "id", "ingestionTimeRange", "type"}

QueryKeys == {"meterApiName", "startTimeInSeconds", "endTimeInSeconds"}

DetailKeys == {"tenantId", "meterApiName", "meterValue", "region"}

create_meter ==
    \E ev \in Dicts(MeterKeys), t \in Times :
        /\ Dispatch("create_meter", None, ev, t)
        /\ payload' = ev
        /\ IF ~HasAll(ev, MeterRequired)
           THEN Reject("BadRequestError", "Required properties missing for create meter")
           ELSE /\ Enter("POST", <<"/meters">>, Body(ev))
                /\ stack' = <<Frame("create_meter", 53)>>
                /\ outcome' = NoResult

create_meter_return ==
    /\ Returned("create_meter", 53)
    /\ Respond(ret.value, HTTP_CREATED)

fetch_meter ==
    \E mid \in MeterIds, t \in Times :
        /\ Dispatch("fetch_meter", mid, EmptyDict, t)
        /\ payload' = EmptyDict
        /\ Enter("GET", MeterPath(mid), NoBody)
        /\ stack' = <<Frame("fetch_meter", 59)>>
        /\ outcome' = NoResult

fetch_meter_return ==
    /\ Returned("fetch_meter", 59)
    /\ Respond(ret.value, HTTP_OK)

fetch_all_meters ==
    \E t \in Times :
        /\ Dispatch("fetch_all_meters", None, EmptyDict, t)
        /\ payload' = EmptyDict
        /\ Enter("GET", <<"/meters">>, NoBody)
        /\ stack' = <<Frame("fetch_all_meters", 65)>>
        /\ outcome' = NoResult

fetch_all_meters_return ==
    /\ Returned("fetch_all_meters", 65)
    /\ Respond(ret.value, HTTP_OK)

\* Mutant: the path's id is assigned, not defaulted.
UpdatePayload_overwrite(p, mid) == Put(p, "id", mid)

\* payload.setdefault('id', meter_id)
UpdatePayload(p, mid) == SetDefault(p, "id", mid)

update_meter ==
    \E mid \in MeterIds, ev \in Dicts(MeterKeys), t \in Times :
        /\ Dispatch("update_meter", mid, ev, t)
        /\ IF ~HasAll(ev, MeterRequired)
           THEN /\ payload' = ev
                /\ Reject("BadRequestError", "Required properties missing for update meter")
           ELSE /\ payload' = UpdatePayload(ev, mid)
                /\ Enter("PUT", <<"/meters">>, Body(payload'))
                /\ stack' = <<Frame("update_meter", 75)>>
                /\ outcome' = NoResult

update_meter_return ==
    /\ Returned("update_meter", 75)
    /\ Respond(ret.value, HTTP_OK)

delete_meter ==
    \E mid \in MeterIds, t \in Times :
        /\ Dispatch("delete_meter", mid, EmptyDict, t)
        /\ payload' = EmptyDict
        /\ Enter("DELETE", MeterPath(mid), NoBody)
        /\ stack' = <<Frame("delete_meter", 81)>>
        /\ outcome' = NoResult

delete_meter_return ==
    /\ Returned("delete_meter", 81)
    /\ Respond(ret.value, HTTP_OK)

\* Mutant: the type is defaulted, not assigned.
CancelPayload_default(p) == SetDefault(p, "type", "by_property_filter_out")

\* payload['type'] = 'by_property_filter_out'
CancelPayload(p) == Put(p, "type", "by_property_filter_out")

cancel_usage ==
    \E ev \in Dicts(CancelKeys), t \in Times :
        /\ Dispatch("cancel_usage", None, ev, t)
        /\ IF ~HasAll(ev, CancelRequired)
           THEN /\ payload' = ev
                /\ Reject("BadRequestError", "Required properties missing for cancelUsage request")
           ELSE /\ payload' = CancelPayload(ev)
                /\ Enter("POST", <<"/ingest-snapshot/custom-filtering-rules">>, Body(payload'))
                /\ stack' = <<Frame("cancel_usage", 119)>>
                /\ outcome' = NoResult

cancel_usage_return ==
    /\ Returned("cancel_usage", 119)
    /\ Respond(ret.value, HTTP_OK)

\* Lines 102-107: the usage query sent upstream.
UsagePayload(p, t) ==
    LET timeRange ==
            [startTimeInSeconds |->
                 Get(p, "startTimeInSeconds", (t \div 1000) - SecondsPerDay),
             endTimeInSeconds |-> Get(p, "endTimeInSeconds", None)]
    IN  SetDefault(SetDefault(p, "timeGroupingInterval", "DAY"), "timeRange", timeRange)

fetch_usage ==
    \E mid \in MeterIds, ev \in Dicts(QueryKeys), t \in Times :
        /\ Dispatch("fetch_usage", mid, ev, t)
        /\ outcome' = NoResult
        /\ IF Get(ev, "meterApiName", None) = None
           THEN \* meter_response, _ = fetch_meter(meter_id)
                /\ stack' = <<Frame("fetch_usage", 93), Frame("fetch_meter", 59)>>
                /\ payload' = ev
                /\ Enter("GET", MeterPath(mid), NoBody)
           ELSE /\ stack' = <<Frame("fetch_usage", 109)>>
                /\ payload' = UsagePayload(ev, t)
                /\ Enter("POST", <<"/usage">>, Body(payload'))

\* Mutant: the name is read from the wrong key.
LookupName_label(meter) == Get(meter.val, "label", None)

\* meter.get('meterApiName')
LookupName(meter) == Get(meter.val, "meterApiName", None)

\* Lines 93-109, fetch_meter having returned.
fetch_usage_lookup ==
    /\ Returned("fetch_usage", 93)
    /\ LET meter == ret.value.body.data
       IN  IF meter.type # "dict"
           THEN /\ outcome' = Raise("AttributeError", meter)
                /\ pc' = "done"
                /\ stack' = <<>>
                /\ UNCHANGED <<payload, call, attempt>>
           ELSE IF LookupName(meter) = None
           THEN /\ outcome' = Raise("BadRequestError",
                                    [type |-> "str",
                                     val |-> <<"meterApiName could not be fetched from meterId">>])
                /\ pc' = "done"
                /\ stack' = <<>>
                /\ UNCHANGED <<payload, call, attempt>>
           ELSE /\ payload' = UsagePayload(Put(payload, "meterApiName",
                                               LookupName(meter)), now)
                /\ stack' = <<Frame("fetch_usage", 109)>>
                /\ Enter("POST", <<"/usage">>, Body(payload'))
                /\ outcome' = outcome
    /\ UNCHANGED <<op, meter_id, event, now, requests, responses, ret>>

fetch_usage_return ==
    /\ Returned("fetch_usage", 109)
    /\ Respond(ret.value, HTTP_OK)

\* Lines 126-132.
MeterEvent(detail, t) ==
    [customerId |-> detail["tenantId"],
     meterApiName |-> detail["meterApiName"],
     meterValue |-> detail["meterValue"],
     meterTimeInMillis |-> t,
     dimensions |-> Without(detail, {"meterApiName", "meterValue"})]

ingest ==
    \E ev \in Dicts(DetailKeys), t \in Times :
        /\ Dispatch("ingest", None, ev, t)
        /\ IF ~HasAll(ev, {"tenantId", "meterApiName", "meterValue"})
           THEN /\ payload' = EmptyDict
                /\ Reject("KeyError", "detail")
           ELSE /\ payload' = MeterEvent(ev, t)
                /\ Enter("POST", <<"/ingest">>, Body(payload'))
                /\ stack' = <<Frame("ingest", 133)>>
                /\ outcome' = NoResult

\* return make_api_call('POST', '/ingest', meter_event)
ingest_return ==
    /\ Returned("ingest", 133)
    /\ outcome' = ret
    /\ stack' = <<>>
    /\ pc' = "done"
    /\ UNCHANGED <<op, meter_id, event, now, payload, call, attempt, requests,
                   responses, ret>>

\* ----- specifications -----------------------------------------------------
Next ==
    \/ create_meter
    \/ create_meter_return
    \/ fetch_meter
    \/ fetch_meter_return
    \/ fetch_all_meters
    \/ fetch_all_meters_return
    \/ update_meter
    \/ update_meter_return
    \/ delete_meter
    \/ delete_meter_return
    \/ fetch_usage
    \/ fetch_usage_lookup
    \/ fetch_usage_return
    \/ cancel_usage
    \/ cancel_usage_return
    \/ ingest
    \/ ingest_return
    \/ make_api_call(Responses)
    \/ Unwind

Spec == Init /\ [][Next]_vars

\* make_api_call on its own: the arguments are drawn at the start, the
\* upstream's answers at each pass of the loop.
ApiCalls ==
    {[method |-> "GET", path |-> <<"/meters">>, body |-> payload_str(NoBody)],
     [method |-> "POST", path |-> <<"/meters">>, body |-> payload_str(Body(EmptyDict))],
     [method |-> "POST", path |-> <<"/meters">>,
      body |-> payload_str(Body([label |-> "v1"]))]}

InitApi ==
    /\ pc = "call"
    /\ op = "make_api_call"
    /\ stack = <<>>
    /\ meter_id = None
    /\ event = EmptyDict
    /\ now = 0
    /\ payload = EmptyDict
    /\ call \in ApiCalls
    /\ attempt = 1
    /\ requests = <<>>
    /\ responses = <<>>
    /\ ret = NoResult
    /\ outcome = NoResult

NextApi == make_api_call(ApiResponses)

SpecApi == InitApi /\ [][NextApi]_vars

\* ----- what the claims speak of -------------------------------------------
\* The body reaches the decoder as text: a gzip stream (or nothing) when
\* gzip is declared, no gzip stream otherwise, and valid UTF-8 within.
WellEncoded(r) ==
    /\ r.body.utf8
    /\ IF r.encoding = "gzip" THEN r.body.gz \/ r.body = EmptyBytes ELSE ~r.body.gz

\* The decoded body the specification prescribes for a text.
ExpectedBody(r) ==
    IF r.body.text = <<>> THEN [type |-> "dict", val |-> EmptyDict]
    ELSE IF \E v \in Vals : r.body.text = TextMeter(v)
    THEN [type |-> "dict", val |-> [meterApiName |-> r.body.text[4]]]
    ELSE [type |-> "str", val |-> r.body.text]

DecodingErrors == {"BadGzipFile", "UnicodeDecodeError"}

AllServerErrors == \A i \in 1..Len(responses) : responses[i].status >= 500

AllWellEncoded == \A i \in 1..Len(responses) : WellEncoded(responses[i])

ServerError(r) == Raise("RuntimeError", [status |-> r.status, body |-> ExpectedBody(r)])

\* C1 as stated: when every response has status >= 500, the call makes
\* exactly 3 attempts and fails with a server error carrying the decoded body
\* of the third response.
C1_AsStated ==
    (pc = "ret" /\ AllServerErrors) =>
        /\ Len(requests) = 3
        /\ ret = ServerError(responses[3])

\* C1 amended: when every response has status >= 500 and a body that
\* decodes, the call makes exactly 3 attempts and fails with a server error
\* carrying the status and decoded body of the third response; a response
\* whose body does not decode ends the call at that attempt with the
\* decoding exception.
C1_ServerErrorsExhaustRetries ==
    (pc = "ret" /\ AllServerErrors) =>
        IF AllWellEncoded
        THEN /\ Len(requests) = 3
             /\ Len(responses) = 3
             /\ attempt = 4
             /\ ret = ServerError(responses[3])
        ELSE /\ ~WellEncoded(Last(responses))
             /\ ret.kind = "raise"
             /\ ret.exc \in DecodingErrors
             /\ Len(requests) = Len(responses)

C1_Witness ==
    /\ pc = "ret"
    /\ AllServerErrors
    /\ AllWellEncoded
    /\ Len(requests) = 3
    /\ responses[3] # responses[1]
    /\ ret.exc = "RuntimeError"

\* C2 as stated: a response with status in [400,499], on whichever attempt,
\* is the last one, and the call fails with a client error carrying its
\* decoded body.
C2_AsStated ==
    \A i \in 1..Len(responses) :
        (responses[i].status >= 400 /\ responses[i].status <= 499) =>
            /\ i = Len(responses)
            /\ pc = "ret"
            /\ ret = Raise("BadRequestError", ExpectedBody(responses[i]))

\* C2 amended: a response with status in [400,499], on whichever attempt,
\* is never followed by another request and fails the call at once: with a
\* client error carrying the decoded body when the body decodes, with the
\* decoding exception when it does not.
C2_ClientErrorIsTerminal ==
    \A i \in 1..Len(responses) :
        (responses[i].status >= 400 /\ responses[i].status <= 499) =>
            /\ i = Len(responses)
            /\ Len(requests) = i
            /\ pc = "ret"
            /\ IF WellEncoded(responses[i])
               THEN ret = Raise("BadRequestError", ExpectedBody(responses[i]))
               ELSE ret.kind = "raise" /\ ret.exc \in DecodingErrors

C2_Witness ==
    /\ pc = "ret"
    /\ Len(responses) = 2
    /\ responses[2].status = 400
    /\ WellEncoded(responses[2])
    /\ ret.exc = "BadRequestError"

\* C3 as stated: a first response with status in [200,399] makes the call
\* return that status together with the decoded body, after exactly one
\* request.
C3_AsStated ==
    (Len(responses) >= 1 /\ responses[1].status >= 200 /\ responses[1].status <= 399) =>
        /\ pc = "ret"
        /\ Len(requests) = 1
        /\ ret = Return([status |-> responses[1].status,
                         body |-> ExpectedBody(responses[1])])

\* C3 amended: a first response with status in [200,399] ends the call
\* after exactly one request; when its body decodes the call returns the
\* decoded body alone (the status is not part of the returned value), and
\* when it does not the call raises the decoding exception.
C3_SuccessReturnsBody ==
    (Len(responses) >= 1 /\ responses[1].status >= 200 /\ responses[1].status <= 399) =>
        /\ pc = "ret"
        /\ Len(requests) = 1
        /\ Len(responses) = 1
        /\ IF WellEncoded(responses[1])
           THEN ret = Return(ExpectedBody(responses[1]))
           ELSE ret.kind = "raise" /\ ret.exc \in DecodingErrors

C3_Witness ==
    /\ pc = "ret"
    /\ Len(requests) = 1
    /\ responses[1].status = 399
    /\ ret.kind = "return"
    /\ ret.value.type = "dict"
    /\ DOMAIN ret.value.val # {}

\* The outcome the status of a response prescribes, given its decoded body.
ByStatus(r, body) ==
    IF r.status >= 500 THEN Raise("RuntimeError", [status |-> r.status, body |-> body])
    ELSE IF r.status >= 400 THEN Raise("BadRequestError", body)
    ELSE Return(body)

\* C8 as stated: decoding never fails the call: whatever the body, the call
\* ends as the status of its last response prescribes, with an empty body
\* decoded to an empty object, a JSON body to its value, and any other body
\* passed through as text.
C8_AsStated ==
    pc = "ret" =>
        /\ ret.exc \notin DecodingErrors
        /\ ret = ByStatus(Last(responses), ExpectedBody(Last(responses)))

\* C8 amended: a body that is text (after decompression when gzip is
\* declared) never fails the call: empty it decodes to an empty object, valid
\* JSON to its value, anything else to the text itself, and the status alone
\* then decides the outcome; a body that cannot be decompressed or is not
\* UTF-8 fails the call with the decoding exception, whatever the status.
C8_DecodingOfText ==
    pc = "ret" =>
        LET r == Last(responses)
        IN  IF WellEncoded(r)
            THEN /\ ret.exc \notin DecodingErrors
                 /\ r.body.text = <<>> =>
                        ret = ByStatus(r, [type |-> "dict", val |-> EmptyDict])
                 /\ r.body.text \in {TextMeter(v) : v \in Vals} =>
                        ret = ByStatus(r, [type |-> "dict",
                                           val |-> [meterApiName |-> r.body.text[4]]])
                 /\ r.body.text \in {TextHtml, TextTruncated} =>
                        ret = ByStatus(r, [type |-> "str", val |-> r.body.text])
            ELSE ret = Raise(IF r.encoding = "gzip" /\ ~r.body.gz
                             THEN "BadGzipFile" ELSE "UnicodeDecodeError", NoValue)

C8_Witness ==
    /\ pc = "ret"
    /\ Last(responses).body = EmptyBytes
    /\ Last(responses).encoding = "gzip"
    /\ ret = Return([type |-> "dict", val |-> EmptyDict])

\* The requests follow the retry rule: at most 3, a further one only after a
\* response with status >= 500 that is not the third, none after a response
\* with status < 500.
RetryRule ==
    /\ Len(requests) <= 3
    /\ Len(responses) = Len(requests)
    /\ pc = "ret" => Len(requests) >= 1
    /\ pc = "ret" \/ ENABLED NextApi
    /\ \A i \in 1..Len(responses) :
          /\ (i < Len(responses) \/ pc = "call") => responses[i].status >= 500 /\ i < 3
          /\ responses[i].status < 500 => i = Len(responses) /\ pc = "ret"

\* C9 as stated: the call ends after 1 to 3 requests under the retry rule,
\* and the status of the first response below 500 alone decides the outcome.
C9_AsStated ==
    /\ RetryRule
    /\ (pc = "ret" /\ Last(responses).status < 500) =>
          \/ Last(responses).status < 400 /\ ret.kind = "return"
          \/ Last(responses).status >= 400 /\ ret.exc = "BadRequestError"

\* C9 amended: the call ends after 1 to 3 requests under the retry rule; the
\* status of the first response below 500 alone decides the outcome when its
\* body decodes, and a response of any status whose body does not decode
\* ends the call at once with the decoding exception.
C9_BoundedRetries ==
    /\ RetryRule
    /\ pc = "ret" =>
          IF WellEncoded(Last(responses))
          THEN ret = ByStatus(Last(responses), ExpectedBody(Last(responses)))
          ELSE ret.kind = "raise" /\ ret.exc \in DecodingErrors
    /\ pc = "call" => AllWellEncoded

C9_Witness ==
    /\ pc = "ret"
    /\ Len(requests) = 2
    /\ responses[1].status = 503
    /\ responses[2].status = 400
    /\ ret.exc = "BadRequestError"

\* ----- the handlers' claims -----------------------------------------------
Missing(d, required) == \E k \in required : k \notin DOMAIN d

Rejected ==
    /\ pc = "done"
    /\ outcome.kind = "raise"
    /\ outcome.exc = "BadRequestError"
    /\ requests = <<>>

C5_AsStated ==
    (op = "ingest" /\ pc = "call") =>
        LET sent == call.body.val
        IN  /\ call.method = "POST"
            /\ call.path = <<"/ingest">>
            /\ sent["customerId"] = event["tenantId"]
            /\ sent["meterApiName"] = event["meterApiName"]
            /\ sent["meterValue"] = event["meterValue"]
            /\ sent["dimensions"] =
                   Without(event, {"tenantId", "meterApiName", "meterValue"})

Lookups == {i \in 1..Len(requests) : requests[i].method = "GET"}

Usages == {i \in 1..Len(requests) :
              requests[i].method = "POST" /\ requests[i].path = <<"/usage">>}

NameGiven == "meterApiName" \in DOMAIN event

\* The answer that ended the lookup, once the lookup is over.
LookupAnswer == responses[Cardinality(Lookups)]

NamesMeter(r) ==
    /\ r.status < 400
    /\ WellEncoded(r)
    /\ \E v \in Vals : r.body.text = TextMeter(v)

\* What fetch_usage does whether or not the claim is amended: the lookup is
\* for the path's meter and precedes every usage request, a usage request
\* carries the looked-up (or the given) name, and a query that gives the name
\* makes no lookup.
UsageOrder ==
    /\ \A i \in Lookups :
          /\ requests[i] = [method |-> "GET", path |-> MeterPath(meter_id), body |-> NoBody]
          /\ \A u \in Usages : i < u
    /\ Lookups \cup Usages = 1..Len(requests)
    /\ NameGiven => Lookups = {}
    /\ ~NameGiven => (requests # <<>> => 1 \in Lookups)
    /\ \A u \in Usages :
          requests[u].body.val["meterApiName"] =
              IF NameGiven THEN event["meterApiName"] ELSE LookupAnswer.body.text[4]

C7_CancelTypeForced ==
    (op = "cancel_usage" /\ requests # <<>>) =>
        \A i \in 1..Len(requests) :
            LET sent == requests[i].body
            IN  /\ sent.some
                /\ DOMAIN sent.val = DOMAIN event \cup {"type"}
                /\ sent.val["type"] = "by_property_filter_out"
                /\ \A k \in DOMAIN event \ {"type"} : sent.val[k] = event[k]

C7_Witness ==
    /\ op = "cancel_usage"
    /\ "type" \in DOMAIN event
    /\ event["type"] # "by_property_filter_out"
    /\ requests # <<>>

\* C10: every PUT /meters of update_meter carries an id, the payload's own
\* when it has one and the path's meter id otherwise, and the payload's
\* other fields unchanged.
C10_UpdateCarriesId ==
    (op = "update_meter" /\ requests # <<>>) =>
        \A i \in 1..Len(requests) :
            LET sent == requests[i].body
            IN  /\ requests[i].method = "PUT"
                /\ requests[i].path = <<"/meters">>
                /\ sent.some
                /\ DOMAIN sent.val = DOMAIN event \cup {"id"}
                /\ sent.val["id"] = IF "id" \in DOMAIN event THEN event["id"] ELSE meter_id
                /\ \A k \in DOMAIN event : sent.val[k] = event[k]

C10_Witness ==
    /\ op = "update_meter"
    /\ "id" \in DOMAIN event
    /\ event["id"] # meter_id
    /\ requests # <<>>
====
